---- MODULE Spec2Model ----
(***************************************************************************)
(* Model of src/dashboard/app.py: the command runner (run_cmd), the        *)
(* environment-name derivation (name_from_prefix) and the config file      *)
(* store (_parse_env_file, _needs_quotes, _serialize_val,                   *)
(* api_envfile_update).                                                    *)
(*                                                                         *)
(* Text is a sequence of one-character strings, so that strip, split,      *)
(* startswith/endswith, quoting and line splitting are computed character  *)
(* by character as Python computes them.  The element "U+2022" stands for  *)
(* the single code point U+2022 (the bullet of the masked placeholder).    *)
(* The alphabet used by the inputs has "\n" as its only line terminator,   *)
(* on which file iteration and str.splitlines agree.                       *)
(***************************************************************************)
EXTENDS Integers, Sequences, FiniteSets, TLC

VARIABLES
    envFile,        \* the file at ENV_PATH: [exists, content]
    exampleFile,    \* the file at example_path: [exists, content]
    environ,        \* os.environ of the server process (a dict)
    prevEnvFile,    \* envFile as it was when the last request arrived
    updates,        \* body["updates"] of the last request: sequence of <<raw_k, raw_v>>
    response,       \* what the last api_envfile_update call returned
    dir,            \* concurrent model: directory, path -> inode number (0 = no entry)
    inodes,         \* concurrent model: inode number -> content
    procs,          \* concurrent model: per-worker position and locals
    observed,       \* concurrent model: what the last _parse_env_file open/read saw
    produced,       \* concurrent model: complete contents some call set out to write
    fn,             \* pure-function checks: the function applied
    arg,            \* pure-function checks: its input
    ret             \* pure-function checks: its result

storeVars == <<envFile, exampleFile, environ, prevEnvFile, updates, response>>
concVars  == <<dir, inodes, procs, observed, produced>>
fnVars    == <<fn, arg, ret>>
vars      == <<envFile, exampleFile, environ, prevEnvFile, updates, response,
               dir, inodes, procs, observed, produced, fn, arg, ret>>

---------------------------------------------------------------------------
(* Characters and the string literals of the source.                      *)

NL     == "\n"
SP     == " "
EQ     == "="
HASH   == "#"
DQ     == "\""
BSL    == "\\"
SLASH  == "/"
BULLET == "U+2022"

UpperChars ==
    <<"A","B","C","D","E","F","G","H","I","J","K","L","M",
      "N","O","P","Q","R","S","T","U","V","W","X","Y","Z">>
LowerChars ==
    <<"a","b","c","d","e","f","g","h","i","j","k","l","m",
      "n","o","p","q","r","s","t","u","v","w","x","y","z">>
DigitChars == {"0","1","2","3","4","5","6","7","8","9"}

Range(s) == {s[i] : i \in 1..Len(s)}

\* the character class [A-Za-z0-9_\.\-/:] of _needs_quotes
SafeChars ==
    Range(UpperChars) \cup Range(LowerChars) \cup DigitChars
        \cup {"_", ".", "-", "/", ":"}

\* the characters str.strip / lstrip / rstrip remove (those of the alphabet)
IsSpace(c) == c \in {SP, NL, "\t"}

S_PORT          == <<"P","O","R","T">>
S_BIND_HOST     == <<"B","I","N","D","_","H","O","S","T">>
S_SERVICES      == <<"S","E","R","V","I","C","E","S">>
S_MASK_SECRETS  == <<"M","A","S","K","_","S","E","C","R","E","T","S">>
S_ACTION_TOKEN  == <<"A","C","T","I","O","N","_","T","O","K","E","N">>
S_SECRET_KEY    == <<"S","E","C","R","E","T","_","K","E","Y">>
S_MINICONDA_CONDA == <<"M","I","N","I","C","O","N","D","A","_","C","O","N","D","A">>
S_COMFYUI_DASHBOARD_DIR ==
    <<"C","O","M","F","Y","U","I","_","D","A","S","H","B","O","A","R","D","_","D","I","R">>
S_models_location ==
    <<"m","o","d","e","l","s","_","l","o","c","a","t","i","o","n">>
S_true          == <<"t","r","u","e">>
S_false         == <<"f","a","l","s","e">>
S_yes           == <<"y","e","s">>
S_on            == <<"o","n">>
S_1             == <<"1">>
S_envs          == <<"e","n","v","s">>
S_base          == <<"b","a","s","e">>
S_miniconda3    == <<"m","i","n","i","c","o","n","d","a","3">>
S_anaconda3     == <<"a","n","a","c","o","n","d","a","3">>
\* the masked placeholder: eight bullets
S_masked        == <<BULLET,BULLET,BULLET,BULLET,BULLET,BULLET,BULLET,BULLET>>

editable_keys ==
    { S_PORT, S_BIND_HOST, S_SERVICES, S_MASK_SECRETS, S_ACTION_TOKEN,
      S_SECRET_KEY, S_MINICONDA_CONDA, S_COMFYUI_DASHBOARD_DIR,
      S_models_location }
restart_sensitive == { S_PORT, S_BIND_HOST }
secret_keys       == { S_ACTION_TOKEN, S_SECRET_KEY }
truthy            == { S_1, S_true, S_yes, S_on }

---------------------------------------------------------------------------
(* str methods.                                                           *)

RECURSIVE LStrip(_)
LStrip(s) == IF s # <<>> /\ IsSpace(Head(s)) THEN LStrip(Tail(s)) ELSE s

RECURSIVE RStrip(_)
RStrip(s) ==
    IF s # <<>> /\ IsSpace(s[Len(s)]) THEN RStrip(SubSeq(s, 1, Len(s) - 1)) ELSE s

Strip(s) == LStrip(RStrip(s))

\* position of the first occurrence of character c in s at or after i, 0 when
\* there is none
RECURSIVE FindFrom(_, _, _)
FindFrom(s, c, i) ==
    IF i > Len(s) THEN 0 ELSE IF s[i] = c THEN i ELSE FindFrom(s, c, i + 1)
Find(s, c) == FindFrom(s, c, 1)

StartsWith(s, p) == Len(s) >= Len(p) /\ SubSeq(s, 1, Len(p)) = p
EndsWith(s, p)   == Len(s) >= Len(p) /\ SubSeq(s, Len(s) - Len(p) + 1, Len(s)) = p

LowerChar(c) ==
    IF \E i \in 1..26 : UpperChars[i] = c
    THEN LowerChars[CHOOSE i \in 1..26 : UpperChars[i] = c]
    ELSE c
Lower(s) == [i \in 1..Len(s) |-> LowerChar(s[i])]

\* s.split(sep) for a one-character separator: always at least one part
RECURSIVE Split(_, _)
Split(s, sep) ==
    LET i == Find(s, sep)
    IN  IF i = 0 THEN <<s>>
        ELSE <<SubSeq(s, 1, i - 1)>> \o Split(SubSeq(s, i + 1, Len(s)), sep)

\* s.splitlines(), and the lines `for line in f` yields once line.rstrip("\n")
\* is applied: no empty last line after a final terminator
RECURSIVE SplitLines(_)
SplitLines(s) ==
    IF s = <<>> THEN <<>>
    ELSE LET i == Find(s, NL)
         IN  IF i = 0 THEN <<s>>
             ELSE <<SubSeq(s, 1, i - 1)>> \o SplitLines(SubSeq(s, i + 1, Len(s)))

\* sep.join(parts)
RECURSIVE Join(_, _)
Join(parts, sep) ==
    IF parts = <<>> THEN <<>>
    ELSE IF Len(parts) = 1 THEN parts[1]
    ELSE parts[1] \o sep \o Join(Tail(parts), sep)

\* s.replace(c, by) for a one-character c
RECURSIVE Replace(_, _, _)
Replace(s, c, by) ==
    IF s = <<>> THEN <<>>
    ELSE (IF Head(s) = c THEN by ELSE <<Head(s)>>) \o Replace(Tail(s), c, by)

---------------------------------------------------------------------------
(* dict: a sequence of <<key, value>> pairs with distinct keys, in         *)
(* insertion order.  An optional value is <<>> (None) or <<v>>.            *)

DictKeys(d) == [i \in 1..Len(d) |-> d[i][1]]
DictHas(d, k) == \E i \in 1..Len(d) : d[i][1] = k
DictGet(d, k) ==
    IF DictHas(d, k) THEN <<d[CHOOSE i \in 1..Len(d) : d[i][1] = k][2]>> ELSE <<>>
DictPut(d, k, v) ==
    IF DictHas(d, k)
    THEN [i \in 1..Len(d) |-> IF d[i][1] = k THEN <<k, v>> ELSE d[i]]
    ELSE Append(d, <<k, v>>)
\* `x or ""`
OrEmpty(opt) == IF opt = <<>> THEN <<>> ELSE opt[1]

NoFile == [exists |-> FALSE, content |-> <<>>]
File(c) == [exists |-> TRUE, content |-> c]

---------------------------------------------------------------------------
(* Config file store.                                                     *)

\* the test of lines 242 and 327: the line is not a key=value line
IsSkipped(line) ==
    \/ line = <<>>
    \/ StartsWith(LStrip(line), <<HASH>>)
    \/ Find(line, EQ) = 0

\* line.split("=", 1), both sides stripped
LineKey(line) == Strip(SubSeq(line, 1, Find(line, EQ) - 1))
LineVal(line) == Strip(SubSeq(line, Find(line, EQ) + 1, Len(line)))

RECURSIVE ParseLines(_, _)
ParseLines(lines, kv) ==
    IF lines = <<>> THEN kv
    ELSE IF IsSkipped(Head(lines)) THEN ParseLines(Tail(lines), kv)
    ELSE ParseLines(Tail(lines), DictPut(kv, LineKey(Head(lines)), LineVal(Head(lines))))

parse_env_file(f) ==
    IF f.exists THEN ParseLines(SplitLines(f.content), <<>>) ELSE <<>>

needs_quotes(val) == \E i \in 1..Len(val) : val[i] \notin SafeChars

serialize_val(val) ==
    IF needs_quotes(val)
    THEN <<DQ>> \o Replace(Replace(val, BSL, <<BSL, BSL>>), DQ, <<BSL, DQ>>) \o <<DQ>>
    ELSE val

norm_bool_str(v) == IF Lower(Strip(v)) \in truthy THEN S_true ELSE S_false

\* lines 324-330: key -> index of its last key=value line
RECURSIVE BuildKeyIndex(_, _, _)
BuildKeyIndex(lines, idx, key_index) ==
    IF idx > Len(lines) THEN key_index
    ELSE IF IsSkipped(lines[idx]) THEN BuildKeyIndex(lines, idx + 1, key_index)
    ELSE BuildKeyIndex(lines, idx + 1, DictPut(key_index, LineKey(lines[idx]), idx))

\* lines 306-322: the raw line sequence the request starts from
LoadLines(env, example) ==
    IF env.exists THEN SplitLines(env.content)
    ELSE IF example.exists THEN SplitLines(example.content)
    ELSE <<>>

\* the whitelist test with the check dropped
IsEditableAny(k) == TRUE

\* line 335
IsEditable(k) == k \in editable_keys

IsMaskedSecret(k, v) == k \in secret_keys /\ Strip(v) \in {<<>>, S_masked}

\* lines 332-362: the loop over updates.items(); st = [lines, applied, restart_required]
RECURSIVE ApplyLoop(_, _, _, _, _)
ApplyLoop(ups, current, env, key_index, st) ==
    IF ups = <<>> THEN st
    ELSE
      LET k     == Strip(Head(ups)[1])
          raw_v == Head(ups)[2]
          v     == IF k = S_MASK_SECRETS THEN norm_bool_str(raw_v) ELSE raw_v
          old_v == IF DictGet(current, k) # <<>> THEN DictGet(current, k)
                   ELSE DictGet(env, k)
          new_line == k \o <<EQ>> \o serialize_val(v)
      IN  IF ~IsEditable(k) THEN ApplyLoop(Tail(ups), current, env, key_index, st)
          ELSE IF IsMaskedSecret(k, v)
          THEN ApplyLoop(Tail(ups), current, env, key_index, st)
          ELSE ApplyLoop(Tail(ups), current, env, key_index,
                 [lines   |-> IF DictHas(key_index, k)
                              THEN [st.lines EXCEPT ![DictGet(key_index, k)[1]] = new_line]
                              ELSE Append(st.lines, new_line),
                  applied |-> Append(st.applied, k),
                  restart_required |->
                      \/ st.restart_required
                      \/ (k \in restart_sensitive /\ OrEmpty(old_v) # v)])

\* lines 299-362 on a snapshot of the two files
Prepare(env, example, osenv, ups) ==
    LET lines == LoadLines(env, example)
    IN  ApplyLoop(ups, parse_env_file(env), osenv, BuildKeyIndex(lines, 1, <<>>),
                  [lines |-> lines, applied |-> <<>>, restart_required |-> FALSE])

\* line 369: the content the bootstrap writes
BootstrapContent(example) == RStrip(example.content) \o <<NL>>
\* line 381: the content the write-back writes
WriteBackContent(lines) == RStrip(Join(lines, <<NL>>)) \o <<NL>>

Reply(applied, restart) ==
    [status |-> 200, ok |-> TRUE, updated |-> applied, restart_required |-> restart]
NoReply ==
    [status |-> 0, ok |-> FALSE, updated |-> <<>>, restart_required |-> FALSE]

\* lines 364-384 after the loop: the file left at ENV_PATH and the JSON returned
Finish(env, example, st) ==
    LET boot == st.applied = <<>> /\ ~env.exists /\ example.exists
        booted == File(BootstrapContent(example))
        applied == IF boot THEN DictKeys(parse_env_file(booted)) ELSE st.applied
    IN  IF applied = <<>>
        THEN [file |-> IF boot THEN booted ELSE env, reply |-> Reply(<<>>, FALSE)]
        ELSE [file  |-> File(WriteBackContent(st.lines)),
              reply |-> Reply(applied, st.restart_required)]

\* the whole handler on a snapshot of the disk
Handle(env, example, osenv, ups) == Finish(env, example, Prepare(env, example, osenv, ups))

---------------------------------------------------------------------------
(* Sequential behaviour of the config store: requests served one at a     *)
(* time, each handler run from its first line to its return.              *)

MaxLines   == 3     \* requests that would grow the file past this are not issued
MaxUpdates == 2     \* most entries in one updates mapping

T_c      == <<"c">>
T_s      == <<"s">>
T_x      == <<"x">>
T_0      == <<"0">>
T_2      == <<"2">>
T_YES    == <<"Y","E","S">>
T_a_b    == <<"a", SP, "b">>
S_EVIL   == <<"E","V","I","L">>
\* a value that carries a line break followed by key=value text
T_inject_EVIL   == S_1 \o <<NL>> \o S_EVIL \o <<EQ>> \o T_x
T_inject_SECRET == S_1 \o <<NL>> \o S_SECRET_KEY \o <<EQ>> \o T_x

\* files the operator may have on disk when the server starts
EnvFilePortBlank == File(S_PORT \o <<EQ>> \o S_1 \o <<NL, NL>>)
EnvFileSecret ==
    File(S_EVIL \o <<EQ>> \o T_0 \o <<NL>> \o S_SECRET_KEY \o <<EQ>> \o T_s \o <<NL>>)
ExampleWithKeys ==
    File(<<HASH, SP>> \o T_c \o <<NL>> \o S_SECRET_KEY \o <<EQ>> \o T_s \o <<NL>>)
ExampleCommentOnly == File(<<HASH, SP>> \o T_c \o <<NL>>)

\* <<file at ENV_PATH, file at example_path, os.environ>> at server start
InitDisks ==
    { <<NoFile, NoFile, <<>>>>,
      <<NoFile, ExampleWithKeys, <<>>>>,
      <<NoFile, ExampleCommentOnly, <<>>>>,
      <<EnvFilePortBlank, ExampleWithKeys, <<>>>>,
      <<EnvFileSecret, NoFile, <<>>>>,
      <<EnvFileSecret, ExampleWithKeys, <<<<S_PORT, S_1>>>>>> }

\* the (raw key, value) entries the requests are made of
Entries ==
    {<<S_PORT, v>> : v \in {S_1, T_a_b, T_inject_EVIL, T_inject_SECRET}}
      \cup {<<<<SP>> \o S_PORT, T_2>>}
      \cup {<<S_SECRET_KEY, v>> : v \in {<<>>, S_masked}}
      \cup {<<S_EVIL, S_1>>, <<S_MASK_SECRETS, T_YES>>}

\* a JSON object has no two equal keys
Requests ==
    UNION {{u \in [1..n -> Entries] :
              \A i, j \in 1..n : i # j => u[i][1] # u[j][1]} : n \in 0..MaxUpdates}

StoreInit ==
    /\ \E d \in InitDisks : envFile = d[1] /\ exampleFile = d[2] /\ environ = d[3]
    /\ prevEnvFile = envFile
    /\ updates = <<>>
    /\ response = NoReply
StoreIdle ==
    /\ envFile = NoFile /\ exampleFile = NoFile /\ environ = <<>>
    /\ prevEnvFile = NoFile /\ updates = <<>> /\ response = NoReply
ConcIdle ==
    /\ dir = <<>> /\ inodes = <<>> /\ procs = <<>>
    /\ observed = <<>> /\ produced = {}
FnIdle == fn = "" /\ arg = <<>> /\ ret = <<>>

\* POST /api/envfile, lines 267-384: the whole handler, for a server that is
\* not serving another request
api_envfile_update(ups) ==
    /\ response = NoReply
    /\ LET r == Handle(envFile, exampleFile, environ, ups)
       IN  /\ Len(SplitLines(r.file.content)) <= MaxLines
           /\ envFile' = r.file
           /\ response' = r.reply
    /\ prevEnvFile' = envFile
    /\ updates' = ups
    /\ UNCHANGED <<exampleFile, environ>>
    /\ UNCHANGED concVars
    /\ UNCHANGED fnVars

\* line 384: the response leaves the handler and its request-local data
\* (updates, applied, restart_required) is gone; the file stays
Respond ==
    /\ response # NoReply
    /\ response' = NoReply
    /\ updates' = <<>>
    /\ prevEnvFile' = envFile
    /\ UNCHANGED <<envFile, exampleFile, environ>>
    /\ UNCHANGED concVars
    /\ UNCHANGED fnVars

Init == StoreInit /\ ConcIdle /\ FnIdle
Next ==
    \/ \E ups \in Requests : api_envfile_update(ups)
    \/ Respond
Spec == Init /\ [][Next]_vars

\* the same server started with a config file already in place
InitExisting == Init /\ envFile.exists
SpecExisting == InitExisting /\ [][Next]_vars

---------------------------------------------------------------------------
(* Properties of the config store.  They are stated on the state right    *)
(* after a handler run, where prevEnvFile, updates and response describe  *)
(* that run.                                                              *)

Called     == response # NoReply
ReadBefore == parse_env_file(prevEnvFile)
ReadAfter  == parse_env_file(envFile)
OldLines   == SplitLines(prevEnvFile.content)
NewLines   == SplitLines(envFile.content)
UpdatedSet == Range(response.updated)
\* the keys of the request as the handler compares them (line 334)
RequestKeys == {Strip(updates[i][1]) : i \in 1..Len(updates)}
KeyLines(lines, k) == {i \in 1..Len(lines) : ~IsSkipped(lines[i]) /\ LineKey(lines[i]) = k}
FileKeys(lines) == {LineKey(lines[i]) : i \in {j \in 1..Len(lines) : ~IsSkipped(lines[j])}}
NoDuplicateKeys(lines) == \A k \in FileKeys(lines) : Cardinality(KeyLines(lines, k)) <= 1
NoRepeats(s) == \A i, j \in 1..Len(s) : i # j => s[i] # s[j]

\* C1: after applyUpdates on an existing file, every key that the read path
\* newly returns, or returns with another value than before, is in the
\* editable-key whitelist
C1_OnlyWhitelistedKeysChange ==
    Called =>
        \A k \in Range(DictKeys(ReadAfter)) :
            DictGet(ReadAfter, k) # DictGet(ReadBefore, k) => k \in editable_keys

\* C2: when applyUpdates rewrites the file, every prior line that is not a
\* key=value line of an applied key is still there, verbatim and at its line
\* position; the line of an applied key that had one is rewritten at its
\* position; the lines of applied keys that had none come after all prior lines
C2_UntouchedLinesKept ==
    (Called /\ response.updated # <<>>) =>
        /\ Len(NewLines) >= Len(OldLines)
        /\ \A i \in 1..Len(OldLines) :
              IF IsSkipped(OldLines[i]) \/ LineKey(OldLines[i]) \notin UpdatedSet
              THEN NewLines[i] = OldLines[i]
              ELSE ~IsSkipped(NewLines[i]) /\ LineKey(NewLines[i]) = LineKey(OldLines[i])
        /\ \A i \in (Len(OldLines) + 1)..Len(NewLines) :
              /\ ~IsSkipped(NewLines[i])
              /\ LineKey(NewLines[i]) \in UpdatedSet \ FileKeys(OldLines)

\* C3 as stated: a request that names keys, all of them outside the whitelist,
\* leaves the target file unchanged (an absent file stays absent) and reports
\* an empty applied list, whatever files are on disk
C3_NonWhitelistedIsNoOp ==
    (Called /\ updates # <<>> /\ RequestKeys \cap editable_keys = {}) =>
        envFile = prevEnvFile /\ response.updated = <<>>

\* C3 amended: a request whose keys are all outside the whitelist leaves the
\* target file unchanged and reports an empty applied list when the target
\* file is present or the example template is absent; when the target is
\* absent and the example is present it creates the target from the example,
\* trailing whitespace replaced by one line break, and reports the keys of the
\* example as applied
C3_NonWhitelistedNoOpOrBootstrap ==
    (Called /\ RequestKeys \cap editable_keys = {}) =>
        IF prevEnvFile.exists \/ ~exampleFile.exists
        THEN envFile = prevEnvFile /\ response.updated = <<>>
        ELSE /\ envFile = File(RStrip(exampleFile.content) \o <<NL>>)
             /\ response.updated = DictKeys(parse_env_file(exampleFile))

\* a request naming only a non-whitelisted key was served on an existing file
C3_Witness ==
    /\ Called
    /\ updates # <<>>
    /\ RequestKeys \cap editable_keys = {}
    /\ prevEnvFile.exists
    /\ envFile = prevEnvFile

\* C4: a sensitive key that arrives empty or as the masked placeholder is not
\* listed as applied and the read path returns for it what it returned before
C4_MaskedSecretUntouched ==
    Called =>
        \A i \in 1..Len(updates) :
            LET k == Strip(updates[i][1])
            IN  (k \in secret_keys /\ Strip(updates[i][2]) \in {<<>>, S_masked}) =>
                    /\ k \notin UpdatedSet
                    /\ DictGet(ReadAfter, k) = DictGet(ReadBefore, k)

\* the values the requests carry
RequestValues == {e[2] : e \in Entries}

\* C7: a request that applies exactly one restart-sensitive key k with value v
\* reports restart_required = TRUE when v differs from the value stored for k
\* by an earlier applyUpdates (from the process environment value when the
\* file has no line for k) and FALSE when v is that stored value
C7_RestartIffValueChanged ==
    Called =>
        \A i \in 1..Len(updates) :
            LET k == Strip(updates[i][1])
                v == updates[i][2]
                others == {j \in 1..Len(updates) :
                              j # i /\ Strip(updates[j][1]) \in restart_sensitive}
            IN  (k \in restart_sensitive /\ others = {} /\ k \in UpdatedSet) =>
                  /\ KeyLines(OldLines, k) = {} =>
                        (response.restart_required <=> v # OrEmpty(DictGet(environ, k)))
                  /\ \A w \in RequestValues :
                        (\E n \in KeyLines(OldLines, k) :
                             OldLines[n] = k \o <<EQ>> \o serialize_val(w)) =>
                        (response.restart_required <=> v # w)

\* C10: if no key had two key=value lines before the call, none has two after
\* it and the applied list names no key twice
C10_KeysStayUnique ==
    (Called /\ NoDuplicateKeys(OldLines)) =>
        NoDuplicateKeys(NewLines) /\ NoRepeats(response.updated)

---------------------------------------------------------------------------
(* _serialize_val followed by the read path.                              *)

MaxValueLen == 3    \* longest value serialized
ValueChars  == {"a", ".", SP, DQ, BSL, NL, EQ}
SerializeInputs ==
    UNION {[1..n -> ValueChars] : n \in 0..MaxValueLen}

\* lines 357-381 for one key, then _parse_env_file: the line written for
\* k = val and what the read path returns for k from the file so written
WriteThenRead(k, val) ==
    LET new_line == k \o <<EQ>> \o serialize_val(val)
    IN  [serialized |-> serialize_val(val),
         read_back  |-> DictGet(parse_env_file(File(WriteBackContent(<<new_line>>))), k)]

SerializeInit ==
    /\ StoreIdle /\ ConcIdle
    /\ fn = "" /\ arg \in SerializeInputs /\ ret = <<>>
SerializeAndReadBack ==
    /\ fn = ""
    /\ fn' = "serialize_val"
    /\ ret' = WriteThenRead(S_SERVICES, arg)
    /\ UNCHANGED arg
    /\ UNCHANGED storeVars
    /\ UNCHANGED concVars
SpecSerialize == SerializeInit /\ [][SerializeAndReadBack]_vars

\* C6: a value of unquoted-safe characters is serialized unchanged and read
\* back as itself; a value containing a space is wrapped in double quotes and
\* the read path returns the original value from the written line
C6_SerializeRoundTrip ==
    fn = "serialize_val" =>
        /\ Range(arg) \subseteq SafeChars =>
              ret.serialized = arg /\ ret.read_back = <<arg>>
        /\ SP \in Range(arg) =>
              /\ Head(ret.serialized) = DQ
              /\ ret.serialized[Len(ret.serialized)] = DQ
              /\ ret.read_back = <<arg>>

---------------------------------------------------------------------------
(* run_cmd.  The input is what subprocess.run does: it returns a          *)
(* CompletedProcess or raises.                                            *)

S_timed_out ==
    <<"C","o","m","m","a","n","d",SP,"t","i","m","e","d",SP,"o","u","t",SP,
      "a","f","t","e","r",SP,"2","0","s">>
S_errno == <<"[","E","r","r","n","o","]">>

OutputTexts == {<<>>, <<"o">>, <<SP, "o", NL>>, <<NL>>}
\* None or a text
Optional(S) == {<<>>} \cup {<<x>> : x \in S}
ExitCodes == {0, 1, 2}
\* the OSError subclasses a failed fork/exec raises
LaunchErrors == {"FileNotFoundError", "PermissionError", "NotADirectoryError", "OSError"}

RunOutcomes ==
    [kind : {"CompletedProcess"}, returncode : ExitCodes,
     stdout : OutputTexts, stderr : OutputTexts]
      \cup [kind : {"TimeoutExpired"}, stdout : Optional(OutputTexts),
            stderr : Optional(OutputTexts)]
      \cup [kind : LaunchErrors, message : {S_errno}]

Returned(rc, out, err) == [raised |-> "", value |-> <<rc, out, err>>]
Raised(exc) == [raised |-> exc, value |-> <<>>]

\* lines 46-52
run_cmd(outcome) ==
    CASE outcome.kind = "CompletedProcess" ->
            Returned(outcome.returncode, Strip(outcome.stdout), Strip(outcome.stderr))
      [] outcome.kind = "TimeoutExpired" ->
            Returned(124, Strip(OrEmpty(outcome.stdout)),
                     Strip(IF OrEmpty(outcome.stderr) = <<>> THEN S_timed_out
                           ELSE OrEmpty(outcome.stderr)))
      [] outcome.kind = "FileNotFoundError" ->
            Returned(127, <<>>, outcome.message)
      [] OTHER -> Raised(outcome.kind)

RunCmdInit ==
    /\ StoreIdle /\ ConcIdle
    /\ fn = "" /\ arg \in RunOutcomes /\ ret = <<>>
RunCmd ==
    /\ fn = ""
    /\ fn' = "run_cmd"
    /\ ret' = run_cmd(arg)
    /\ UNCHANGED arg
    /\ UNCHANGED storeVars
    /\ UNCHANGED concVars
SpecRunCmd == RunCmdInit /\ [][RunCmd]_vars

\* C8: run_cmd never raises; a normal exit returns the exit code, a timeout
\* returns 124, and any failure to locate or launch the executable returns
\* 127 with empty stdout and non-empty stderr
C8_RunCmdAlwaysReturns ==
    fn = "run_cmd" =>
        /\ ret.raised = ""
        /\ arg.kind = "CompletedProcess" => ret.value[1] = arg.returncode
        /\ arg.kind = "TimeoutExpired" => ret.value[1] = 124
        /\ arg.kind \in LaunchErrors =>
              ret.value[1] = 127 /\ ret.value[2] = <<>> /\ ret.value[3] # <<>>

---------------------------------------------------------------------------
(* name_from_prefix.                                                      *)

MaxSegments == 3    \* most '/'-separated segments in a prefix
Segments == {<<>>, S_envs, S_miniconda3, S_anaconda3, T_x, T_x \o S_miniconda3}
Prefixes ==
    {Join(segs, <<SLASH>>) :
        segs \in UNION {[1..n -> Segments] : n \in 1..MaxSegments}}

\* s.rstrip(c)
RECURSIVE RStripChar(_, _)
RStripChar(s, c) ==
    IF s # <<>> /\ s[Len(s)] = c THEN RStripChar(SubSeq(s, 1, Len(s) - 1), c) ELSE s

\* list.index: position of the first element equal to x, 0 when there is none
Index(parts, x) == Find(parts, x)

\* name_from_prefix taking the last segment where the source takes the one
\* after "envs"
name_from_prefix_last(prefix) ==
    LET parts == Split(RStripChar(prefix, SLASH), SLASH)
    IN  IF Index(parts, S_envs) # 0 /\ Index(parts, S_envs) < Len(parts)
        THEN parts[Len(parts)]
        ELSE IF EndsWith(prefix, S_miniconda3) \/ EndsWith(prefix, S_anaconda3)
             THEN S_base
             ELSE parts[Len(parts)]

\* lines 62-71
name_from_prefix(prefix) ==
    LET parts == Split(RStripChar(prefix, SLASH), SLASH)
        idx   == Index(parts, S_envs)
    IN  IF idx # 0 /\ idx < Len(parts)
        THEN parts[idx + 1]
        ELSE IF EndsWith(prefix, S_miniconda3) \/ EndsWith(prefix, S_anaconda3)
             THEN S_base
             ELSE parts[Len(parts)]

NameInit ==
    /\ StoreIdle /\ ConcIdle
    /\ fn = "" /\ arg \in Prefixes /\ ret = <<>>
NameFromPrefix ==
    /\ fn = ""
    /\ fn' = "name_from_prefix"
    /\ ret' = name_from_prefix(arg)
    /\ UNCHANGED arg
    /\ UNCHANGED storeVars
    /\ UNCHANGED concVars
SpecName == NameInit /\ [][NameFromPrefix]_vars

\* the segments once trailing '/' are removed
TrimmedSegments == Split(RStripChar(arg, SLASH), SLASH)
EndsInBaseName == EndsWith(arg, S_miniconda3) \/ EndsWith(arg, S_anaconda3)
\* some "envs" segment has a segment after it
EnvsFollowed(segs) == \E i \in 1..(Len(segs) - 1) : segs[i] = S_envs
FirstEnvs(segs) ==
    CHOOSE i \in 1..Len(segs) : segs[i] = S_envs /\ \A j \in 1..(i - 1) : segs[j] # S_envs

\* C9 as stated: a prefix with a segment "envs" yields the segment right after
\* such a segment (read in the claim's favour: only when a segment follows,
\* trailing '/' removed, and after any of the "envs" segments), and a prefix
\* ending in miniconda3 or anaconda3 yields "base"
C9_NameAsStated ==
    fn = "name_from_prefix" =>
        /\ EnvsFollowed(TrimmedSegments) =>
              \E i \in 1..(Len(TrimmedSegments) - 1) :
                  TrimmedSegments[i] = S_envs /\ ret = TrimmedSegments[i + 1]
        /\ EndsInBaseName => ret = S_base

\* C9 amended: when, trailing '/' removed, the first "envs" segment of the
\* prefix has a segment after it, the name is that segment; otherwise a prefix
\* ending in miniconda3 or anaconda3 yields "base"
C9_NameFirstEnvsElseBase ==
    fn = "name_from_prefix" =>
        IF S_envs \in Range(TrimmedSegments)
              /\ FirstEnvs(TrimmedSegments) < Len(TrimmedSegments)
        THEN ret = TrimmedSegments[FirstEnvs(TrimmedSegments) + 1]
        ELSE EndsInBaseName => ret = S_base

\* the name of an environment that is itself called miniconda3 was derived
C9_Witness ==
    /\ fn = "name_from_prefix"
    /\ arg = T_x \o <<SLASH>> \o S_envs \o <<SLASH>> \o S_miniconda3
    /\ ret = S_miniconda3

---------------------------------------------------------------------------
(* Concurrent requests.  The server runs the handler in several workers   *)
(* with no lock; each file-system call of the handler is one step.  A     *)
(* file is a directory entry naming an inode; open(path, "w") truncates   *)
(* the inode the entry names (or creates one), the buffered write reaches *)
(* the inode at offset 0 when the file is closed, and os.replace moves    *)
(* the entry.                                                             *)

Workers == {1, 2}
ConcRequests ==
    { <<>>, <<<<S_PORT, T_2>>>>, <<<<S_MASK_SECRETS, T_YES>>>> }
\* the directory and the inodes at server start: only the example on disk, or
\* only the target file
ConcInitDisks ==
    { [dir |-> [env |-> 0, tmp |-> 0, example |-> 1],
       inodes |-> <<ExampleWithKeys.content>>],
      [dir |-> [env |-> 1, tmp |-> 0, example |-> 0],
       inodes |-> <<S_PORT \o <<EQ>> \o S_1 \o <<NL>>>>] }

Unseen == [seen |-> FALSE, file |-> NoFile]
Seen(f) == [seen |-> TRUE, file |-> f]

IdleWorker ==
    [pc |-> "idle", ups |-> <<>>, current |-> <<>>, lines |-> <<>>, applied |-> <<>>,
     restart_required |-> FALSE, content |-> <<>>, fd |-> 0, reply |-> NoReply]

\* the file a path names, as open(path).read() / os.path.exists see it
FileAt(path) == IF dir[path] = 0 THEN NoFile ELSE File(inodes[dir[path]])

\* what a write of data at offset 0 leaves in a file that held old
Overwrite(old, data) == data \o SubSeq(old, Len(data) + 1, Len(old))

ConcInit ==
    /\ StoreIdle /\ FnIdle
    /\ \E d \in ConcInitDisks :
          /\ inodes = d.inodes
          /\ dir = d.dir
          /\ produced = IF d.dir["env"] = 0 THEN {} ELSE {d.inodes[d.dir["env"]]}
    /\ procs = [w \in Workers |-> IdleWorker]
    /\ observed = Unseen

ConcFrame == UNCHANGED storeVars /\ UNCHANGED fnVars

\* line 300: current = _parse_env_file()
ParseCurrent(w, ups) ==
    /\ procs[w].pc = "idle"
    /\ procs' = [procs EXCEPT ![w].pc = "load", ![w].ups = ups,
                              ![w].current = parse_env_file(FileAt("env"))]
    /\ observed' = Seen(FileAt("env"))
    /\ UNCHANGED <<dir, inodes, produced>>
    /\ ConcFrame

\* lines 306-362: read the raw lines and run the loop over the updates
LoadAndApply(w) ==
    /\ procs[w].pc = "load"
    /\ LET lines == LoadLines(FileAt("env"), FileAt("example"))
           st == ApplyLoop(procs[w].ups, procs[w].current, environ,
                           BuildKeyIndex(lines, 1, <<>>),
                           [lines |-> lines, applied |-> <<>>,
                            restart_required |-> FALSE])
       IN  procs' = [procs EXCEPT
                        ![w].pc = IF st.applied = <<>> THEN "boot_check" ELSE "tmp_open",
                        ![w].lines = st.lines,
                        ![w].applied = st.applied,
                        ![w].restart_required = st.restart_required]
    /\ UNCHANGED <<dir, inodes, observed, produced>>
    /\ ConcFrame

\* lines 365-369, 375-376: nothing applied; read the example when the target
\* is missing, otherwise answer with an empty list
BootCheck(w) ==
    /\ procs[w].pc = "boot_check"
    /\ IF ~FileAt("env").exists /\ FileAt("example").exists
       THEN /\ procs' = [procs EXCEPT ![w].pc = "boot_open",
                            ![w].content = BootstrapContent(FileAt("example"))]
            /\ produced' = produced \cup {BootstrapContent(FileAt("example"))}
       ELSE /\ procs' = [procs EXCEPT ![w].pc = "done", ![w].reply = Reply(<<>>, FALSE)]
            /\ UNCHANGED produced
    /\ UNCHANGED <<dir, inodes, observed>>
    /\ ConcFrame

\* open(path, "w") by worker w
OpenForWrite(w, path, next) ==
    /\ IF dir[path] = 0
       THEN /\ inodes' = Append(inodes, <<>>)
            /\ dir' = [dir EXCEPT ![path] = Len(inodes) + 1]
            /\ procs' = [procs EXCEPT ![w].pc = next, ![w].fd = Len(inodes) + 1]
       ELSE /\ inodes' = [inodes EXCEPT ![dir[path]] = <<>>]
            /\ UNCHANGED dir
            /\ procs' = [procs EXCEPT ![w].pc = next, ![w].fd = dir[path]]

\* f.write(content) and the close that ends the with block
WriteAndClose(w, next) ==
    /\ inodes' = [inodes EXCEPT ![procs[w].fd] = Overwrite(@, procs[w].content)]
    /\ procs' = [procs EXCEPT ![w].pc = next, ![w].fd = 0]

\* line 370
BootOpen(w) ==
    /\ procs[w].pc = "boot_open"
    /\ OpenForWrite(w, "env", "boot_write")
    /\ UNCHANGED <<observed, produced>>
    /\ ConcFrame

\* line 371
BootWrite(w) ==
    /\ procs[w].pc = "boot_write"
    /\ WriteAndClose(w, "boot_parse")
    /\ UNCHANGED <<dir, observed, produced>>
    /\ ConcFrame

\* lines 372, 375-376
BootParse(w) ==
    /\ procs[w].pc = "boot_parse"
    /\ LET applied == DictKeys(parse_env_file(FileAt("env")))
       IN  procs' = [procs EXCEPT
                        ![w].applied = applied,
                        ![w].pc = IF applied = <<>> THEN "done" ELSE "tmp_open",
                        ![w].reply = IF applied = <<>> THEN Reply(<<>>, FALSE) ELSE @]
    /\ observed' = Seen(FileAt("env"))
    /\ UNCHANGED <<dir, inodes, produced>>
    /\ ConcFrame

\* lines 379-380: open(tmp_path, "w")
TmpOpen(w) ==
    /\ procs[w].pc = "tmp_open"
    /\ OpenForWrite(w, "tmp", "tmp_write")
    /\ UNCHANGED <<observed, produced>>
    /\ ConcFrame

\* line 381; the content is the one computed from this worker's lines
TmpWrite(w) ==
    /\ procs[w].pc = "tmp_write"
    /\ inodes' = [inodes EXCEPT
                     ![procs[w].fd] = Overwrite(@, WriteBackContent(procs[w].lines))]
    /\ procs' = [procs EXCEPT ![w].pc = "replace", ![w].fd = 0,
                              ![w].content = WriteBackContent(procs[w].lines)]
    /\ produced' = produced \cup {WriteBackContent(procs[w].lines)}
    /\ UNCHANGED <<dir, observed>>
    /\ ConcFrame

\* lines 382-384: os.replace(tmp_path, ENV_PATH); it raises when another
\* worker has already moved the temporary file away
ReplaceTmp(w) ==
    /\ procs[w].pc = "replace"
    /\ IF dir["tmp"] = 0
       THEN /\ procs' = [procs EXCEPT ![w].pc = "done",
                            ![w].reply = [status |-> 500, ok |-> FALSE, updated |-> <<>>,
                                          restart_required |-> FALSE]]
            /\ UNCHANGED dir
       ELSE /\ procs' = [procs EXCEPT ![w].pc = "done",
                            ![w].reply = Reply(procs[w].applied, procs[w].restart_required)]
            /\ dir' = [dir EXCEPT !["env"] = dir["tmp"], !["tmp"] = 0]
    /\ UNCHANGED <<inodes, observed, produced>>
    /\ ConcFrame

\* GET /api/envfile, line 211: another client reads the target path
ReadAll ==
    /\ observed' = Seen(FileAt("env"))
    /\ UNCHANGED <<dir, inodes, procs, produced>>
    /\ ConcFrame

ConcNext ==
    \/ \E w \in Workers, ups \in ConcRequests : ParseCurrent(w, ups)
    \/ \E w \in Workers : LoadAndApply(w)
    \/ \E w \in Workers : BootCheck(w)
    \/ \E w \in Workers : BootOpen(w)
    \/ \E w \in Workers : BootWrite(w)
    \/ \E w \in Workers : BootParse(w)
    \/ \E w \in Workers : TmpOpen(w)
    \/ \E w \in Workers : TmpWrite(w)
    \/ \E w \in Workers : ReplaceTmp(w)
    \/ ReadAll
SpecConc == ConcInit /\ [][ConcNext]_vars

\* C5: whatever the interleaving, a read of the target path returns the file
\* as it was before the writes or the complete content one applyUpdates call
\* set out to write, never an empty, truncated or mixed file
C5_ReaderSeesCompleteFile ==
    (observed.seen /\ observed.file.exists) => observed.file.content \in produced

====
